---- MODULE Spec2Model ----
(***************************************************************************)
(* Model of mlir-enumerate: the driver loop of main, the program generator *)
(* (createProgram, addOperation, getValue, GeneratorInfo) and the          *)
(* tree_guide Guide/Chooser pair it is driven by.                          *)
(*                                                                         *)
(* One action per choose call of the generator, so that every state        *)
(* between two decisions of a run is a state of the model.                 *)
(***************************************************************************)
EXTENDS Integers, Sequences, FiniteSets, TLC

\* Largest fuel the enumeration is checked for (main passes 2).
MaxFuel == 2

\* The operation kinds of addOperation, in registry order.
availableOps == <<"arith.addi", "arith.muli">>

\* builder.getIntegerType(32): the only type tag the generator asks for.
I32 == "i32"

Types == {I32}

VARIABLES
    fuel,             \* the fuel argument of createProgram
    numKinds,         \* how many of availableOps are registered
    frontier,         \* Guide: queue of pending decision paths
    seed,             \* Chooser: the path it was seeded with
    cursor,           \* Chooser: number of seed entries replayed so far
    history,          \* Chooser: decisions recorded past the seed
    error,            \* "none", "ConsistencyError" or "InvalidInsertionIndex"
    pc,               \* position of the single thread of control
    args,             \* func: the block arguments, in positional order
    ops,              \* func body: the operations, in order
    returned,         \* func body ends with func.return
    dominatingValues, \* GeneratorInfo::dominatingValues
    numOps,           \* createProgram: local numOps
    i,                \* createProgram: loop counter
    opName,           \* addOperation: local opName
    lhs,              \* addOperation: local lhs
    rhs,              \* addOperation: local rhs
    clock,            \* number of IR mutations made in this run
    calls,            \* log of the choose calls of this run
    runs,             \* number of Choosers handed out by makeChooser
    completed,        \* log of the finished runs: decisions and program
    chooseSum,        \* sum of (n - 1) over all choose(n) calls of all runs
    freshSum,         \* the same sum over the calls answered in fresh mode
    replaying,        \* index in completed of the run being replayed, or 0
    replayed          \* log entry of the last finished replay, or NoRun

genVars == <<args, ops, returned, dominatingValues, numOps, i, opName, lhs, rhs, clock>>

chooserVars == <<frontier, seed, cursor, history, calls, chooseSum, freshSum>>

vars == <<fuel, numKinds, frontier, seed, cursor, history, error, pc, args, ops,
          returned, dominatingValues, numOps, i, opName, lhs, rhs, clock, calls,
          runs, completed, chooseSum, freshSum, replaying, replayed>>

\* A Value handle: what it is, its type tag, its identity (arguments are
\* numbered in the order getValue created them) and when it was introduced.
NoValue == [kind |-> "none", type |-> "", id |-> 0, born |-> 0]

\* What a read past the end of a vector may yield besides a live element.
Garbage == [kind |-> "garbage", type |-> "", id |-> 0, born |-> 0]

NoRun == [of |-> 0]

----------------------------------------------------------------------------
(* Chooser *)

\* The cursor is still within the seed path.
InReplay == cursor < Len(seed)

\* Mutant: the last alternative is not enqueued.
FreshPathsDropLast(prefix, n) ==
    [j \in 1..(n - 2) |-> Append(prefix, <<j, n>>)]

\* Mutant: the branch taken is enqueued as well.
FreshPathsWithTaken(prefix, n) ==
    [j \in 1..n |-> Append(prefix, <<j - 1, n>>)]

\* The paths enqueued by a fresh choose(n): prefix + [i] for i in [1, n).
FreshPaths(prefix, n) ==
    [j \in 1..(n - 1) |-> Append(prefix, <<j, n>>)]

\* The value choose(n) returns.
ChooseValue(n) ==
    IF InReplay THEN seed[cursor + 1][1] ELSE 0

\* Replay sees a branch count other than the recorded one.
ConsistencyError(n) ==
    InReplay /\ seed[cursor + 1][2] # n

\* The effect of choose(n) on the Chooser and on the Guide's frontier.
choose(n) ==
    /\ IF InReplay
         THEN /\ cursor' = cursor + 1
              /\ UNCHANGED <<history, frontier>>
         ELSE /\ history' = Append(history, <<0, n>>)
              /\ frontier' = frontier \o FreshPaths(seed \o history, n)
              /\ UNCHANGED cursor
    /\ calls' = Append(calls, [r |-> ChooseValue(n), n |-> n, fresh |-> ~InReplay])
    /\ chooseSum' = chooseSum + (n - 1)
    /\ freshSum' = IF InReplay THEN freshSum ELSE freshSum + (n - 1)
    /\ UNCHANGED seed

----------------------------------------------------------------------------
(* Guide and driver *)

\* Mutant: the value set outlives the run (one GeneratorInfo for all runs).
GeneratorInfoShared == dominatingValues

\* GeneratorInfo(chooser, builder): dominatingValues starts empty.
GeneratorInfo == [t \in Types |-> <<>>]

\* Mutant: the newest pending path is handed out (depth first).
makeChooserNewestFirst ==
    /\ pc = "main"
    /\ IF frontier = <<>>
         THEN /\ pc' = "exit"
              /\ UNCHANGED <<frontier, seed, cursor, history, runs, calls>>
         ELSE /\ seed' = frontier[Len(frontier)]
              /\ frontier' = SubSeq(frontier, 1, Len(frontier) - 1)
              /\ cursor' = 0
              /\ history' = <<>>
              /\ calls' = <<>>
              /\ runs' = runs + 1
              /\ pc' = "createProgram"
    /\ UNCHANGED <<fuel, numKinds, error, completed, chooseSum, freshSum, replaying, replayed>>
    /\ UNCHANGED genVars

\* while (auto chooser = guide.makeChooser())
makeChooser ==
    /\ pc = "main"
    /\ IF frontier = <<>>
         THEN /\ pc' = "exit"
              /\ UNCHANGED <<frontier, seed, cursor, history, runs, calls>>
         ELSE /\ seed' = Head(frontier)
              /\ frontier' = Tail(frontier)
              /\ cursor' = 0
              /\ history' = <<>>
              /\ calls' = <<>>
              /\ runs' = runs + 1
              /\ pc' = "createProgram"
    /\ UNCHANGED <<fuel, numKinds, error, completed, chooseSum, freshSum, replaying, replayed>>
    /\ UNCHANGED genVars

Init ==
    /\ fuel \in 0..MaxFuel
    /\ numKinds \in 1..Len(availableOps)
    /\ frontier = << <<>> >>
    /\ seed = <<>>
    /\ cursor = 0
    /\ history = <<>>
    /\ error = "none"
    /\ pc = "main"
    /\ args = <<>>
    /\ ops = <<>>
    /\ returned = FALSE
    /\ dominatingValues = [t \in Types |-> <<>>]
    /\ numOps = 0
    /\ i = 0
    /\ opName = ""
    /\ lhs = NoValue
    /\ rhs = NoValue
    /\ clock = 0
    /\ calls = <<>>
    /\ runs = 0
    /\ completed = <<>>
    /\ chooseSum = 0
    /\ freshSum = 0
    /\ replaying = 0
    /\ replayed = NoRun

----------------------------------------------------------------------------
(* Program generator *)

Range(s) == {s[j] : j \in 1..Len(s)}

\* The process stops on a consistency error of the Chooser.
Abort(kind) ==
    /\ error' = kind
    /\ pc' = "aborted"

\* Mutant: choose(fuel).
NumOpsBranchesNoZero(f) == f

\* Mutant: choose(fuel + 2).
NumOpsBranchesOneMore(f) == f + 2

\* chooser->choose(fuel + 1)
NumOpsBranches(f) == f + 1

\* Mutant: only the first operation kind is ever chosen.
OpBranchesFirstOnly(k) == 1

\* info.chooser->choose(availableOps.size())
OpBranches(k) == Len(SubSeq(availableOps, 1, k))

\* Mutant: choose(domValues.size() + 2).
GetValueBranchesOneMore(domValues) == Len(domValues) + 2

\* info.chooser->choose(domValues.size() + 1)
GetValueBranches(domValues) == Len(domValues) + 1

\* Mutant: choice <= domValues.size().
IsReuseInclusive(choice, domValues) == choice <= Len(domValues)

\* if (choice < (long)domValues.size())
IsReuse(choice, domValues) == choice < Len(domValues)

\* Mutant: the vector is indexed from its end.
ReadDomValueFromEnd(domValues, choice) ==
    IF choice >= 0 /\ choice < Len(domValues)
      THEN {domValues[Len(domValues) - choice]}
      ELSE Range(domValues) \cup {Garbage}

\* domValues[choice]: an element, or anything at all past the end.
ReadDomValue(domValues, choice) ==
    IF choice >= 0 /\ choice < Len(domValues)
      THEN {domValues[choice + 1]}
      ELSE Range(domValues) \cup {Garbage}

\* Mutant: choose(func.getNumArguments()), no insertion at the end.
NewArgBranchesNoAppend(a) == Len(a)

\* Mutant: choose(func.getNumArguments() + 2).
NewArgBranchesPastEnd(a) == Len(a) + 2

\* info.chooser->choose(func.getNumArguments() + 1)
NewArgBranches(a) == Len(a) + 1

\* Mutant: the argument is always added at the end of the signature.
insertArgumentAtEnd(a, index, v) == Append(a, v)

\* func.insertArgument(newArgIndex, type, ...)
insertArgument(a, index, v) ==
    SubSeq(a, 1, index) \o <<v>> \o SubSeq(a, index + 1, Len(a))

\* func.getArgument(newArgIndex)
getArgument(a, index) == a[index + 1]

\* Mutant: the value is put in front of the recorded values.
addDominatingValueInFront(dv, value) ==
    [dv EXCEPT ![value.type] = <<value>> \o @]

\* Mutant: the value is not recorded.
addDominatingValueDropped(dv, value) == dv

\* GeneratorInfo::addDominatingValue
addDominatingValue(dv, value) ==
    [dv EXCEPT ![value.type] = Append(@, value)]

\* Mutant: i <= numOps.
LoopCondInclusive(j, n) == j <= n

\* for (long i = 0; i < numOps; i++)
LoopCond(j, n) == j < n

\* The argument number of a block argument (its position in the signature).
ArgNumber(a, v) ==
    IF \E j \in 1..Len(a) : a[j] = v
      THEN (CHOOSE j \in 1..Len(a) : a[j] = v) - 1
      ELSE -1

\* How an operand prints: an argument by position, anything else by identity.
OperandRef(a, v) ==
    IF v.kind = "arg" THEN <<"arg", ArgNumber(a, v)>> ELSE <<v.kind, v.id>>

\* module->dump(): the structure of the program that was built.
Dump(a, o, ret) ==
    [params   |-> [j \in 1..Len(a) |-> a[j].type],
     body     |-> [j \in 1..Len(o) |->
                     <<o[j].name, OperandRef(a, o[j].lhs), OperandRef(a, o[j].rhs)>>],
     returned |-> ret]

\* The decision path of the run so far: (choice, branch count) pairs.
DecisionPath(c) == [j \in 1..Len(c) |-> <<c[j].r, c[j].n>>]

\* The choices of the run so far.
Decisions(c) == [j \in 1..Len(c) |-> c[j].r]

\* createProgram up to and including numOps = chooser->choose(fuel + 1)
createProgram ==
    /\ pc = "createProgram"
    /\ choose(NumOpsBranches(fuel))
    /\ IF ConsistencyError(NumOpsBranches(fuel))
         THEN /\ Abort("ConsistencyError")
              /\ UNCHANGED genVars
         ELSE /\ args' = <<>>
              /\ ops' = <<>>
              /\ returned' = FALSE
              /\ dominatingValues' = GeneratorInfo
              /\ clock' = 0
              /\ numOps' = ChooseValue(NumOpsBranches(fuel))
              /\ i' = 0
              /\ opName' = ""
              /\ lhs' = NoValue
              /\ rhs' = NoValue
              /\ pc' = IF LoopCond(0, numOps') THEN "addOperation" ELSE "return"
              /\ UNCHANGED error
    /\ UNCHANGED <<fuel, numKinds, runs, completed, replaying, replayed>>

\* addOperation up to and including the choice of opName
addOperation ==
    /\ pc = "addOperation"
    /\ choose(OpBranches(numKinds))
    /\ IF ConsistencyError(OpBranches(numKinds))
         THEN /\ Abort("ConsistencyError")
              /\ UNCHANGED opName
         ELSE /\ opName' = availableOps[ChooseValue(OpBranches(numKinds)) + 1]
              /\ pc' = "lhs"
              /\ UNCHANGED error
    /\ UNCHANGED <<fuel, numKinds, runs, completed, replaying, replayed>>
    /\ UNCHANGED <<args, ops, returned, dominatingValues, numOps, i, lhs, rhs, clock>>

\* The local of addOperation that the current getValue call initialises.
Assign(v) ==
    IF pc \in {"lhs", "lhsNewArg"}
      THEN lhs' = v /\ UNCHANGED rhs
      ELSE rhs' = v /\ UNCHANGED lhs

AfterGetValue == IF pc \in {"lhs", "lhsNewArg"} THEN "rhs" ELSE "create"

\* getValue up to the return of a dominating value or the decision to add an
\* argument
getValue ==
    /\ pc \in {"lhs", "rhs"}
    /\ LET domValues == dominatingValues[I32]
           n == GetValueBranches(domValues)
           choice == ChooseValue(n)
       IN  /\ choose(n)
           /\ IF ConsistencyError(n)
                THEN /\ Abort("ConsistencyError")
                     /\ UNCHANGED <<lhs, rhs>>
                ELSE IF IsReuse(choice, domValues)
                  THEN /\ \E v \in ReadDomValue(domValues, choice) : Assign(v)
                       /\ pc' = AfterGetValue
                       /\ UNCHANGED error
                  ELSE /\ pc' = IF pc = "lhs" THEN "lhsNewArg" ELSE "rhsNewArg"
                       /\ UNCHANGED <<lhs, rhs, error>>
    /\ UNCHANGED <<fuel, numKinds, runs, completed, replaying, replayed>>
    /\ UNCHANGED <<args, ops, returned, dominatingValues, numOps, i, opName, clock>>

\* getValue from the choice of newArgIndex to the return of the new argument
getValueNewArg ==
    /\ pc \in {"lhsNewArg", "rhsNewArg"}
    /\ LET n == NewArgBranches(args)
           newArgIndex == ChooseValue(n)
           value == [kind |-> "arg", type |-> I32,
                     id |-> Len(args) + 1, born |-> clock + 1]
       IN  /\ choose(n)
           /\ IF ConsistencyError(n)
                THEN /\ Abort("ConsistencyError")
                     /\ UNCHANGED <<args, dominatingValues, lhs, rhs, clock>>
                ELSE IF newArgIndex < 0 \/ newArgIndex > Len(args)
                  THEN /\ Abort("InvalidInsertionIndex")
                       /\ UNCHANGED <<args, dominatingValues, lhs, rhs, clock>>
                  ELSE /\ args' = insertArgument(args, newArgIndex, value)
                       /\ clock' = clock + 1
                       /\ LET arg == getArgument(args', newArgIndex)
                          IN  /\ dominatingValues' = addDominatingValue(dominatingValues, arg)
                              /\ Assign(arg)
                       /\ pc' = AfterGetValue
                       /\ UNCHANGED error
    /\ UNCHANGED <<fuel, numKinds, runs, completed, replaying, replayed>>
    /\ UNCHANGED <<ops, returned, numOps, i, opName>>

\* Mutant: the result of the new operation is recorded as a dominating value.
createOpRecordingResult ==
    /\ pc = "create"
    /\ LET result == [kind |-> "result", type |-> I32,
                      id |-> Len(ops) + 1, born |-> clock + 1]
       IN  /\ ops' = Append(ops, [name |-> opName, lhs |-> lhs, rhs |-> rhs,
                                  result |-> result, born |-> clock + 1])
           /\ dominatingValues' = addDominatingValue(dominatingValues, result)
    /\ clock' = clock + 1
    /\ i' = i + 1
    /\ pc' = IF LoopCond(i', numOps) THEN "addOperation" ELSE "return"
    /\ UNCHANGED <<fuel, numKinds, error, runs, completed, replaying, replayed>>
    /\ UNCHANGED <<args, returned, numOps, opName, lhs, rhs>>
    /\ UNCHANGED chooserVars

\* builder.create(loc, opName, {lhs, rhs}, {i32}) and the loop's i++
createOp ==
    /\ pc = "create"
    /\ LET result == [kind |-> "result", type |-> I32,
                      id |-> Len(ops) + 1, born |-> clock + 1]
       IN  ops' = Append(ops, [name |-> opName, lhs |-> lhs, rhs |-> rhs,
                               result |-> result, born |-> clock + 1])
    /\ clock' = clock + 1
    /\ i' = i + 1
    /\ pc' = IF LoopCond(i', numOps) THEN "addOperation" ELSE "return"
    /\ UNCHANGED <<fuel, numKinds, error, runs, completed, replaying, replayed>>
    /\ UNCHANGED <<args, returned, dominatingValues, numOps, opName, lhs, rhs>>
    /\ UNCHANGED chooserVars

\* builder.create<func::ReturnOp>, return module, module->dump()
returnOp ==
    /\ pc = "return"
    /\ returned' = TRUE
    /\ LET run == [seed      |-> seed,
                   path      |-> DecisionPath(calls),
                   decisions |-> Decisions(calls),
                   program   |-> Dump(args, ops, TRUE)]
       IN  IF replaying = 0
             THEN /\ completed' = Append(completed, run)
                  /\ UNCHANGED <<replaying, replayed>>
             ELSE /\ replayed' = [of |-> replaying, program |-> run.program,
                                  path |-> run.path]
                  /\ replaying' = 0
                  /\ UNCHANGED completed
    /\ pc' = "main"
    /\ UNCHANGED <<fuel, numKinds, error, runs>>
    /\ UNCHANGED <<args, ops, dominatingValues, numOps, i, opName, lhs, rhs, clock>>
    /\ UNCHANGED chooserVars

Next ==
    \/ makeChooser
    \/ createProgram
    \/ addOperation
    \/ getValue
    \/ getValueNewArg
    \/ createOp
    \/ returnOp

Spec == Init /\ [][Next]_vars

\* The driver's loop runs on while it can: one thread, no suspension points.
FairSpec == Spec /\ WF_vars(Next)

----------------------------------------------------------------------------
(* Replaying every finished run: before the driver asks the Guide for the   *)
(* next Chooser, a fresh Chooser seeded with the decision path of the run   *)
(* that has just finished is handed to createProgram once more.             *)

\* The run that has just finished has not been replayed yet.
ReplayDue ==
    /\ pc = "main"
    /\ completed # <<>>
    /\ replayed.of # Len(completed)

replayChooser ==
    /\ ReplayDue
    /\ replaying = 0
    /\ replaying' = Len(completed)
    /\ seed' = completed[Len(completed)].path
    /\ cursor' = 0
    /\ history' = <<>>
    /\ calls' = <<>>
    /\ pc' = "createProgram"
    /\ UNCHANGED <<fuel, numKinds, frontier, error, runs, completed, replayed>>
    /\ UNCHANGED <<chooseSum, freshSum>>
    /\ UNCHANGED genVars

NextReplay ==
    \/ ~ReplayDue /\ Next
    \/ replayChooser

SpecReplay == Init /\ [][NextReplay]_vars

----------------------------------------------------------------------------
(* The decision tree of the generation algorithm *)

RECURSIVE TreeLeaves(_, _, _, _, _)
\* The complete decision sequences below a node of the decision tree: at is
\* the decision that is due, p the parameter count, k the number of recorded
\* values of the operand type, n the operations still to be generated and
\* kinds the size of the operation-kind set.
TreeLeaves(at, p, k, n, kinds) ==
    LET Under(c, leaves) == {<<c>> \o l : l \in leaves}
        After == IF at = "lhs" THEN "rhs" ELSE "kind"
        Left == IF at = "lhs" THEN n ELSE n - 1
    IN  IF at = "kind"
          THEN IF n = 0
                 THEN {<<>>}
                 ELSE UNION {Under(c, TreeLeaves("lhs", p, k, n, kinds)) : c \in 0..(kinds - 1)}
          ELSE UNION {Under(c, TreeLeaves(After, p, k, Left, kinds)) : c \in 0..(k - 1)}
               \cup UNION {Under(k, Under(x, TreeLeaves(After, p + 1, k + 1, Left, kinds)))
                             : x \in 0..p}

\* The leaves of the whole tree: the numOps decision, then the operations.
DecisionTreeLeaves(f, kinds) ==
    UNION {{<<c>> \o l : l \in TreeLeaves("kind", 0, 0, c, kinds)} : c \in 0..f}

CompletedDecisions == {completed[j].decisions : j \in 1..Len(completed)}

\* C1: Completeness. The sequence of choices of a run that has just finished
\* is a leaf of the decision tree of the generation algorithm and is the
\* sequence of choices of no earlier run; when makeChooser signals exhaustion
\* the number of runs equals the number of leaves and every leaf has been the
\* sequence of choices of a run.
C1_Completeness ==
    /\ pc \in {"main", "exit"} => Len(completed) = runs
    /\ pc = "main" /\ completed # <<>> =>
          LET last == completed[Len(completed)].decisions
          IN  /\ last \in DecisionTreeLeaves(fuel, numKinds)
              /\ \A a \in 1..(Len(completed) - 1) : completed[a].decisions # last
    /\ pc = "exit" =>
          /\ runs = Cardinality(DecisionTreeLeaves(fuel, numKinds))
          /\ Cardinality(CompletedDecisions) = runs
          /\ CompletedDecisions = DecisionTreeLeaves(fuel, numKinds)

\* An enumeration with two operation kinds has ended after seven runs.
C1_Witness ==
    /\ pc = "exit"
    /\ fuel = 1
    /\ numKinds = 2
    /\ runs = 7

----------------------------------------------------------------------------
\* The positions of the thread of control inside a run.
InRun == pc \in {"createProgram", "addOperation", "lhs", "lhsNewArg",
                 "rhs", "rhsNewArg", "create", "return"}

\* C2: Termination. The enumeration eventually stays in the state where the
\* frontier is empty and makeChooser has signalled exhaustion, the number of
\* runs never changes once it has, and every run that starts gets to the
\* state where its program ends with the return and control is back in main.
C2_Termination ==
    /\ <>[](pc = "exit" /\ frontier = <<>>)
    /\ [][pc = "exit" => runs' = runs /\ pc' = "exit"]_vars
    /\ [](InRun => <>(pc = "main" /\ returned))

\* The enumeration of fuel 2 has signalled exhaustion after many runs.
C2_Witness ==
    /\ pc = "exit"
    /\ frontier = <<>>
    /\ fuel = 2
    /\ numKinds = 1
    /\ runs > 50

\* C3: Determinism. A fresh Chooser seeded with the decision path of a
\* finished run makes createProgram, with the same fuel, take the same
\* decisions without a consistency error and build a structurally identical
\* program: same parameter types and positions, same operation kinds with
\* the same operands.
C3_Determinism ==
    /\ replaying # 0 => error = "none"
    /\ replayed.of # 0 =>
          /\ replayed.program = completed[replayed.of].program
          /\ replayed.path = completed[replayed.of].path

\* A run with two operations and more than one parameter has been replayed.
C3_Witness ==
    /\ replayed.of # 0
    /\ Len(replayed.program.body) = 2
    /\ Len(replayed.program.params) >= 2

\* The values getValue may hand out: the function's parameters and the
\* recorded values.
Introduced == Range(args) \cup Range(dominatingValues[I32])

\* C4: Dominance. Every operand of every operation emitted was introduced
\* strictly before the operation was created, as a parameter of the function
\* or as a recorded earlier result, and the value a getValue call has returned
\* is in the signature or the value environment.
C4_Dominance ==
    /\ \A j \in 1..Len(ops) : \A v \in {ops[j].lhs, ops[j].rhs} :
          /\ v.born < ops[j].born
          /\ \/ v.kind = "arg" /\ v \in Range(args)
             \/ v.kind = "result" /\ v \in Range(dominatingValues[I32])
    /\ pc \in {"rhs", "rhsNewArg", "create"} => lhs \in Introduced
    /\ pc = "create" => rhs \in Introduced

\* The second operation uses a parameter that was inserted in front of the
\* first operation's parameter after the first operation was created.
C4_Witness ==
    /\ Len(ops) = 2
    /\ ops[2].lhs.born > ops[1].born
    /\ ArgNumber(args, ops[2].lhs) < ArgNumber(args, ops[1].lhs)

\* C5: Fuel bound. The program of a run never has more than fuel operations;
\* while the run generates it has at most as many as the first choose of the
\* run returned, and exactly as many once it has returned.
C5_FuelBound ==
    /\ Len(ops) <= fuel
    /\ pc \in {"addOperation", "lhs", "lhsNewArg", "rhs", "rhsNewArg", "create", "return"}
          => /\ calls[1].n = fuel + 1
             /\ Len(ops) <= calls[1].r
    /\ pc = "main" /\ completed # <<>> =>
          LET last == completed[Len(completed)]
          IN  /\ Len(last.program.body) = last.decisions[1]
              /\ Len(last.program.body) <= fuel

\* A run with as many operations as the fuel allows has finished.
C5_Witness ==
    /\ pc = "main"
    /\ fuel = 2
    /\ completed # <<>>
    /\ Len(completed[Len(completed)].program.body) = 2

----------------------------------------------------------------------------
\* C6 as stated: once N runs have completed and control is back in main, the
\* size of the frontier is the sum of (branch count - 1) over all choose
\* calls made so far, minus N.
C6_FrontierSizeAsStated ==
    pc = "main" /\ completed # <<>> =>
        Len(frontier) = chooseSum - Len(completed)

\* C6, amended: the size of the frontier is one (the root path), plus the sum
\* of (branch count - 1) over the choose calls answered in fresh mode so far,
\* in all runs, minus the number of runs started so far.
C6_FrontierSize ==
    Len(frontier) = 1 + freshSum - runs

\* A later run has replayed decisions, made fresh ones with more than one
\* branch, and left paths pending.
C6_Witness ==
    /\ runs >= 3
    /\ cursor > 0
    /\ freshSum < chooseSum
    /\ \E j \in 1..Len(calls) : calls[j].fresh /\ calls[j].n > 1
    /\ Len(frontier) > 2

\* C7: Range of choose. Every choose(n) call of the run has n >= 1 and has
\* returned an integer r with 0 <= r < n, replayed or fresh.
C7_ChooseRange ==
    \A j \in 1..Len(calls) :
        /\ calls[j].n >= 1
        /\ calls[j].r \in 0..(calls[j].n - 1)

\* A run has made all four kinds of choose call, replayed a nonzero choice
\* and answered a call with several branches in fresh mode.
C7_Witness ==
    /\ pc = "create"
    /\ Len(args) >= 2
    /\ \E j \in 1..Len(calls) : ~calls[j].fresh /\ calls[j].r > 0
    /\ \E j \in 1..Len(calls) : calls[j].fresh /\ calls[j].n > 1

\* C8: Replay consistency. No consistency error is ever raised, and every
\* choose call made while the cursor was within the seed path was presented
\* the branch count recorded at that position and returned the value
\* recorded there.
C8_ReplayConsistency ==
    /\ error # "ConsistencyError"
    /\ cursor <= Len(seed)
    /\ InRun /\ pc # "createProgram" => cursor <= Len(calls)
    /\ InRun => \A j \in 1..cursor :
          j <= Len(calls) =>
             /\ ~calls[j].fresh
             /\ calls[j].r = seed[j][1]
             /\ calls[j].n = seed[j][2]

\* A run has replayed a whole seed path of two operations' decisions.
C8_Witness ==
    /\ pc = "create"
    /\ Len(ops) = 1
    /\ cursor = Len(seed)
    /\ cursor >= 6
    /\ Len(calls) = cursor

\* C9: Fresh-mode choose. A choose(n) call made with the cursor at the end of
\* the seed path returns 0 and appends to the frontier exactly the paths
\* (decisions of the run so far, then i) for i = 1 .. n - 1, in that order;
\* for n = 1 the frontier is unchanged.
C9_FreshChoose ==
    [][ (Len(calls') = Len(calls) + 1 /\ cursor >= Len(seed)) =>
          LET c == calls'[Len(calls')]
              sofar == seed \o history
          IN  /\ c.r = 0
              /\ sofar = DecisionPath(calls)
              /\ Len(frontier') = Len(frontier) + (c.n - 1)
              /\ SubSeq(frontier', 1, Len(frontier)) = frontier
              /\ \A x \in 1..(c.n - 1) :
                    frontier'[Len(frontier) + x] = sofar \o << <<x, c.n>> >>
              /\ c.n = 1 => frontier' = frontier
      ]_vars

\* A run that began by replaying has answered a choose(1) and a choose(n)
\* with n >= 3 in fresh mode.
C9_Witness ==
    /\ cursor > 0
    /\ \E j \in 1..Len(calls) : calls[j].fresh /\ calls[j].n = 1
    /\ \E j \in 1..Len(calls) : calls[j].fresh /\ calls[j].n >= 3

\* C10: with fuel 0 and one operation kind the enumeration never starts a
\* second run, and at exhaustion it has made exactly one run, whose program
\* is a function with no parameter and no operation, ended by a return.
C10_FuelZero ==
    fuel = 0 /\ numKinds = 1 =>
        /\ runs <= 1
        /\ pc = "exit" =>
              /\ runs = 1
              /\ Len(completed) = 1
              /\ completed[1].program =
                    [params |-> <<>>, body |-> <<>>, returned |-> TRUE]

\* The enumeration with fuel 0 and one kind has signalled exhaustion.
C10_Witness ==
    /\ fuel = 0
    /\ numKinds = 1
    /\ pc = "exit"
    /\ runs = 1

----------------------------------------------------------------------------
\* The programs dumped by the finished runs.
CompletedPrograms == {completed[j].program : j \in 1..Len(completed)}

\* The program with the given parameter count and operations.
Program(n, body) ==
    [params |-> [j \in 1..n |-> I32], body |-> body, returned |-> TRUE]

\* C11: with fuel 1 and one operation kind the enumeration makes exactly
\* four runs before exhaustion, and their programs are four different ones:
\* the empty function, op(arg0, arg0) with one parameter, op(arg1, arg0) with
\* two parameters and op(arg0, arg1) with two parameters.
C11_FuelOne ==
    fuel = 1 /\ numKinds = 1 =>
        /\ runs <= 4
        /\ pc = "exit" =>
              /\ runs = 4
              /\ Len(completed) = 4
              /\ Cardinality(CompletedPrograms) = 4
              /\ CompletedPrograms =
                    { Program(0, <<>>),
                      Program(1, << <<"arith.addi", <<"arg", 0>>, <<"arg", 0>>>> >>),
                      Program(2, << <<"arith.addi", <<"arg", 1>>, <<"arg", 0>>>> >>),
                      Program(2, << <<"arith.addi", <<"arg", 0>>, <<"arg", 1>>>> >>) }

\* The enumeration with fuel 1 and one kind has signalled exhaustion, and a
\* run whose second parameter went in front of the first has finished.
C11_Witness ==
    /\ fuel = 1
    /\ numKinds = 1
    /\ pc = "exit"
    /\ \E j \in 1..Len(completed) :
          /\ completed[j].decisions = <<1, 0, 0, 0, 1, 0>>
          /\ completed[j].program.body[1][2] = <<"arg", 1>>

\* C12: FIFO ordering. Before the first run the frontier holds the empty
\* root path alone; the first run answers every choose with 0; each
\* makeChooser that starts a run hands out the oldest pending path and
\* removes exactly that one; and every other step leaves the pending paths
\* in place and in order, putting new paths behind them.
C12_Fifo ==
    /\ [](runs = 0 => frontier = << <<>> >>)
    /\ [](runs = 1 => seed = <<>> /\ \A j \in 1..Len(calls) : calls[j].r = 0)
    /\ [](completed # <<>> =>
             /\ completed[1].seed = <<>>
             /\ \A j \in 1..Len(completed[1].decisions) : completed[1].decisions[j] = 0)
    /\ [][ /\ runs' = runs + 1 =>
                /\ seed' = frontier[1]
                /\ frontier' = SubSeq(frontier, 2, Len(frontier))
           /\ runs' = runs =>
                /\ Len(frontier') >= Len(frontier)
                /\ SubSeq(frontier', 1, Len(frontier)) = frontier
         ]_vars

\* A run was seeded with the older of several pending paths while a path
\* enqueued later is still waiting.
C12_Witness ==
    /\ runs >= 3
    /\ pc = "createProgram"
    /\ Len(frontier) >= 2
    /\ seed # <<>>
    /\ frontier[1] # seed

\* C13: Reuse. A getValue call whose first choose returns choice < k returns
\* the value that was recorded choice-th (counting from 0), makes no second
\* choose call, and leaves the parameter list and the value environment as
\* they were.
C13_Reuse ==
    [][ (pc \in {"lhs", "rhs"} /\ Len(calls') = Len(calls) + 1
            /\ calls'[Len(calls')].r < Len(dominatingValues[I32])) =>
          LET choice == calls'[Len(calls')].r
              got == IF pc = "lhs" THEN lhs' ELSE rhs'
          IN  /\ calls'[Len(calls')].n = Len(dominatingValues[I32]) + 1
              /\ got = dominatingValues[I32][choice + 1]
              /\ got.kind = "arg"
              /\ got.id = choice + 1
              /\ pc' = IF pc = "lhs" THEN "rhs" ELSE "create"
              /\ args' = args
              /\ dominatingValues' = dominatingValues
      ]_vars

\* The left operand reuses the second of three recorded values, which is not
\* the second parameter of the function.
C13_Witness ==
    /\ pc = "rhs"
    /\ Len(dominatingValues[I32]) >= 2
    /\ calls[Len(calls)].r = 1
    /\ lhs = dominatingValues[I32][2]
    /\ ArgNumber(args, lhs) # 1

----------------------------------------------------------------------------
\* C14: New parameter. The second choose of getValue inserts exactly one
\* parameter at the chosen index: the parameters before the index stay, those
\* at or after it move up by one, none is removed; the new parameter's value
\* is appended as the last recorded value of its type, and every value
\* recorded before keeps its place in that sequence and denotes the same
\* parameter, whose position has moved up by one if it was at or after the
\* index.
C14_NewParameter ==
    [][ (pc \in {"lhsNewArg", "rhsNewArg"} /\ Len(calls') = Len(calls) + 1) =>
          LET index == calls'[Len(calls')].r
              dom == dominatingValues[I32]
              new == IF pc = "lhsNewArg" THEN lhs' ELSE rhs'
          IN  /\ pc' # "aborted"
              /\ Len(args') = Len(args) + 1
              /\ args'[index + 1] = new
              /\ new.type = I32
              /\ new \notin Range(args)
              /\ \A j \in 1..Len(args) :
                    args'[IF j <= index THEN j ELSE j + 1] = args[j]
              /\ Len(dominatingValues'[I32]) = Len(dom) + 1
              /\ dominatingValues'[I32][Len(dom) + 1] = new
              /\ \A j \in 1..Len(dom) :
                    /\ dominatingValues'[I32][j] = dom[j]
                    /\ ArgNumber(args', dom[j]) =
                          ArgNumber(args, dom[j])
                            + (IF ArgNumber(args, dom[j]) >= index THEN 1 ELSE 0)
      ]_vars

\* A third parameter has been inserted between the two older ones.
C14_Witness ==
    /\ pc \in {"rhs", "create"}
    /\ Len(args) = 3
    /\ args[2].id = 3
    /\ dominatingValues[I32][3] = args[2]
    /\ calls[Len(calls)].r = 1
    /\ calls[Len(calls)].n = 3

\* The results of the operations emitted so far.
Results == {ops[j].result : j \in 1..Len(ops)}

\* C15: Operation results are never reused. The value environment holds
\* function parameters only, never the result of an operation, and no operand
\* of an operation, in the program under construction or in a dumped one, is
\* the result of an operation.
C15_ResultsNeverReused ==
    /\ \A v \in Range(dominatingValues[I32]) :
          /\ v.kind = "arg"
          /\ v \in Range(args)
          /\ v \notin Results
    /\ \A j \in 1..Len(ops) :
          /\ ops[j].lhs.kind = "arg" /\ ops[j].lhs \notin Results
          /\ ops[j].rhs.kind = "arg" /\ ops[j].rhs \notin Results
    /\ \A r \in 1..Len(completed) :
          \A j \in 1..Len(completed[r].program.body) :
             /\ completed[r].program.body[j][2][1] = "arg"
             /\ completed[r].program.body[j][3][1] = "arg"

\* A second operation has been created while the result of the first exists
\* and is not a recorded value.
C15_Witness ==
    /\ Len(ops) = 2
    /\ ops[1].result.kind = "result"
    /\ ops[1].result \notin Range(dominatingValues[I32])
    /\ ops[2].lhs # ops[1].lhs

\* C16: No capability error. No run ends in an error; the index passed to
\* insertArgument lies between 0 and the parameter count at the call,
\* inclusive; and a getValue call that returns a recorded value reads the
\* sequence at an index below its length.
C16_NoCapabilityError ==
    /\ [](error = "none" /\ pc # "aborted")
    /\ [][ /\ (pc \in {"lhsNewArg", "rhsNewArg"} /\ Len(calls') = Len(calls) + 1) =>
                calls'[Len(calls')].r \in 0..Len(args)
           /\ (pc \in {"lhs", "rhs"} /\ pc' \in {"rhs", "create"} /\ pc' # pc) =>
                calls'[Len(calls')].r \in 0..(Len(dominatingValues[I32]) - 1)
         ]_vars

\* The last recorded value has been read, in a function whose newest
\* parameter was inserted at the end of the signature.
C16_Witness ==
    /\ pc = "rhs"
    /\ Len(args) >= 2
    /\ args[Len(args)].id = Len(args)
    /\ calls[Len(calls)].r = Len(dominatingValues[I32]) - 1
    /\ lhs = dominatingValues[I32][Len(dominatingValues[I32])]
    /\ Len(ops) = 1

----------------------------------------------------------------------------
\* The longest decision sequence a run with fuel f can make.
MaxPathLen(f) == 1 + 5 * f

\* C17: Path length bound. Every pending path, the seed path and the
\* decisions of the current run, and the decision sequence of every finished
\* run have length at most 1 + 5 * fuel.
C17_PathLength ==
    /\ \A j \in 1..Len(frontier) : Len(frontier[j]) <= MaxPathLen(fuel)
    /\ Len(seed) <= MaxPathLen(fuel)
    /\ Len(calls) <= MaxPathLen(fuel)
    /\ \A r \in 1..Len(completed) : Len(completed[r].decisions) <= MaxPathLen(fuel)

\* A run of fuel 2 that made eleven decisions has finished, and a path of
\* eleven decisions is pending.
C17_Witness ==
    /\ fuel = 2
    /\ pc = "main"
    /\ completed # <<>>
    /\ Len(completed[Len(completed)].decisions) = 11
    /\ \E j \in 1..Len(frontier) : Len(frontier[j]) = 11

\* C18: Distinct runs give distinct programs. The program a run has just
\* dumped differs from the program of every earlier run, and at exhaustion
\* there are as many different programs as runs.
C18_DistinctPrograms ==
    /\ pc = "main" /\ completed # <<>> =>
          \A a \in 1..(Len(completed) - 1) :
             completed[a].program # completed[Len(completed)].program
    /\ pc = "exit" => Cardinality(CompletedPrograms) = runs

\* With two kinds, two finished runs built the same operations and differ
\* only in where the second parameter was inserted.
C18_Witness ==
    /\ numKinds = 2
    /\ pc = "main"
    /\ \E a, b \in 1..Len(completed) :
          /\ a # b
          /\ Len(completed[a].program.body) = 1
          /\ Len(completed[b].program.body) = 1
          /\ completed[a].program.params = completed[b].program.params
          /\ completed[a].program.body[1][1] = completed[b].program.body[1][1]
          /\ completed[a].program # completed[b].program

\* The number of finished runs whose program has n operations.
RunsWithOps(n) ==
    Cardinality({r \in 1..Len(completed) : Len(completed[r].program.body) = n})

\* C19: the shipped driver (fuel 2, both operation kinds) makes exactly 307
\* runs before makeChooser signals exhaustion: 1 program without operation,
\* 6 with one operation and 300 with two.
C19_ShippedDriver ==
    fuel = 2 /\ numKinds = Len(availableOps) =>
        /\ runs <= 307
        /\ pc = "exit" =>
              /\ runs = 307
              /\ Len(completed) = 307
              /\ RunsWithOps(0) = 1
              /\ RunsWithOps(1) = 6
              /\ RunsWithOps(2) = 300

\* The shipped driver's enumeration has signalled exhaustion.
C19_Witness ==
    /\ fuel = 2
    /\ numKinds = 2
    /\ pc = "exit"
    /\ frontier = <<>>

\* The operations of the run started so far: those created and the one
\* whose operands are being chosen.
OpsStarted ==
    Len(ops) + (IF pc \in {"lhs", "lhsNewArg", "rhs", "rhsNewArg", "create"} THEN 1 ELSE 0)

\* The argument numbers used as operands in a dumped program.
UsedArgs(program) ==
    UNION {{program.body[j][2][2], program.body[j][3][2]} : j \in 1..Len(program.body)}

\* C20: Parameters and recorded values coincide. The number of recorded i32
\* values equals the parameter count, both are at most twice the number of
\* operations started, and in a finished program every parameter is an
\* operand of some operation.
C20_ParamsAreValues ==
    /\ Len(dominatingValues[I32]) = Len(args)
    /\ Range(dominatingValues[I32]) = Range(args)
    /\ Len(args) <= 2 * OpsStarted
    /\ pc = "main" /\ completed # <<>> =>
          LET program == completed[Len(completed)].program
          IN  /\ Len(program.params) = Len(args)
              /\ \A p \in 0..(Len(program.params) - 1) : p \in UsedArgs(program)

\* A run with four parameters, one for each operand, has finished.
C20_Witness ==
    /\ pc = "main"
    /\ completed # <<>>
    /\ Len(completed[Len(completed)].program.params) = 4
    /\ Len(dominatingValues[I32]) = 4
====
